---- MODULE Spec2Model ----
(***************************************************************************)
(* Model of the task-management client: the axios client with its request  *)
(* and response interceptors (src/services/api.ts and src/lib/api.ts), the *)
(* tasks service, the Redux task and auth slices, the useTasks hook with   *)
(* its React Query query and mutations, and the registration mutation.     *)
(*                                                                         *)
(* JavaScript values: an optional property of an object is a sequence,     *)
(* <<>> for undefined and <<v>> for the value v; a property that is not an *)
(* own property of the object is outside the DOMAIN of the function that   *)
(* stands for the object.  null is nullStr where a string is expected and  *)
(* null where an object is expected.                                       *)
(*                                                                         *)
(* A service call resolves to the value of its declared return type        *)
(* (PaginatedResponse<Task>, ApiResponse<Task>).                           *)
(***************************************************************************)
EXTENDS Integers, Sequences, FiniteSets, TLC

\* ------------------------------------------------------------------ bounds
\* Number of requests one behaviour issues: by the query observer (fetches of
\* the task list), by the mutations of the hook, and by direct dispatches and
\* the register page.
MaxFetches == 2
MaxMutations == 1
MaxDispatches == 2
\* Length of the task lists the reducers are applied to on their own.
MaxLen == 2
\* Length of the requested paths, in tokens ("/" or a run of other characters).
MaxPath == 4

\* ------------------------------------------------------------ value domains
nullStr == "<null>"
undefinedStr == "<undefined>"
null == [isNull |-> TRUE]
\* undefined where a number is expected
undefinedNum == -1

TaskIds == {"a", "b"}
Tasks == [_id : TaskIds, completed : BOOLEAN]
TokenValues == {"", "t1"}
StorageKeys == {"token", "authToken"}
Users == {[id |-> "u1", name |-> "Ann", email |-> "ann@example.com"]}

LOGIN_HREF == "/auth/login"
GENERIC_MESSAGE == "Something went wrong"

\* An axios error: error.response is absent for transport failures and
\* timeouts; error.response.data.message is the server-provided message.
NetworkError == [response |-> FALSE, status |-> 0, message |-> undefinedStr]
HttpErrors ==
  { [response |-> TRUE, status |-> 401, message |-> undefinedStr],
    [response |-> TRUE, status |-> 500, message |-> "Title is required"] }
Errors == {NetworkError} \cup HttpErrors
NoError == [response |-> FALSE, status |-> -1, message |-> undefinedStr]

\* ApiResponse<T> of src/types/api.ts
ApiResponse(d) == [success |-> TRUE, message |-> "ok", data |-> d]

\* The page size the client asks for (initialState.filters.limit).
PAGE_LIMIT == 10
\* A page that is full: PAGE_LIMIT tasks.
FullPage == [i \in 1..PAGE_LIMIT |-> [_id |-> "p" \o ToString(i), completed |-> FALSE]]

\* PaginatedResponse<Task> bodies the server answers GET /api/tasks with
PaginatedResponses ==
  { [data |-> <<>>, total |-> 0, page |-> 1, limit |-> 10, totalPages |-> 0],
    [data |-> << [_id |-> "a", completed |-> FALSE], [_id |-> "b", completed |-> FALSE] >>,
     total |-> 47, page |-> 2, limit |-> 10, totalPages |-> 5],
    \* a body that states no totalPages
    [data |-> << [_id |-> "a", completed |-> FALSE], [_id |-> "b", completed |-> FALSE] >>,
     total |-> 47, page |-> 2, limit |-> 10, totalPages |-> undefinedNum],
    \* a full first page
    [data |-> FullPage, total |-> 47, page |-> 1, limit |-> PAGE_LIMIT, totalPages |-> 5],
    \* a first page that is the only one
    [data |-> << [_id |-> "a", completed |-> FALSE], [_id |-> "b", completed |-> FALSE] >>,
     total |-> 2, page |-> 1, limit |-> 10, totalPages |-> 1],
    \* the page after the last one: tasks were deleted since it was the third of five
    [data |-> <<>>, total |-> 20, page |-> 3, limit |-> 10, totalPages |-> 2] }

\* --------------------------------------------------- JavaScript objects
\* o.k for an optional property: <<>> when k is not an own property too.
Prop(o, k) == IF k \in DOMAIN o THEN o[k] ELSE <<>>
Defined(o, k) == Prop(o, k) # <<>>
\* { ...a, ...b }: every own property of b (an undefined one too) overrides a's.
Spread(a, b) == [k \in DOMAIN a \cup DOMAIN b |-> IF k \in DOMAIN b THEN b[k] ELSE a[k]]
EmptyObject == [k \in {} |-> <<>>]
\* String(v) of a boolean and of a number
StringOfBoolean(b) == IF b THEN "true" ELSE "false"
StringOfNumber(n) == ToString(n)
\* JavaScript truthiness of a string and of a number
TruthyString(s) == s # ""
TruthyNumber(n) == n # 0

\* --------------------------------------------- HTTP client (axios instance)
\* The headers axios.create sets (src/services/api.ts, src/lib/api.ts).
DefaultHeaders == [h \in {"Content-Type"} |-> "application/json"]
HasAuthorization(headers) == "Authorization" \in DOMAIN headers
Bearer(token) == "Bearer " \o token

\* An interceptor that attaches the header for every string getItem returns,
\* the empty one included (a bug the code does not have).
requestInterceptor_AnyToken(win, storage, key, headers) ==
  IF win /\ storage[key] # nullStr
  THEN [h \in DOMAIN headers \cup {"Authorization"} |->
          IF h = "Authorization" THEN Bearer(storage[key]) ELSE headers[h]]
  ELSE headers

\* api.interceptors.request.use: the headers of the outgoing request.  `key` is
\* the storage key the client reads: "token" (src/services/api.ts) or
\* "authToken" (src/lib/api.ts).
requestInterceptor(win, storage, key, headers) ==
  IF win
  THEN LET token == storage[key] IN
       IF token # nullStr /\ TruthyString(token)
       THEN [h \in DOMAIN headers \cup {"Authorization"} |->
               IF h = "Authorization" THEN Bearer(token) ELSE headers[h]]
       ELSE headers
  ELSE headers

\* error.response?.status
ErrorStatus(error) == IF error.response THEN error.status ELSE 0
\* error.response?.data?.message
ErrorMessage(error) == IF error.response THEN error.message ELSE undefinedStr
\* m || fallback
OrElse(m, fallback) == IF m = undefinedStr \/ ~TruthyString(m) THEN fallback ELSE m

\* A response handler that tears the session down without leaving the page.
responseRejected_NoRedirect(win, storage, location, error) ==
  [ localStorage |-> IF ErrorStatus(error) = 401 /\ win
                     THEN [storage EXCEPT !["token"] = nullStr] ELSE storage,
    href |-> location,
    toasts |-> << [type |-> "error", text |-> OrElse(ErrorMessage(error), GENERIC_MESSAGE)] >>,
    reject |-> error ]

\* A response handler that shows the generic text whatever the server said.
responseRejected_GenericOnly(win, storage, location, error) ==
  [ localStorage |-> IF ErrorStatus(error) = 401 /\ win
                     THEN [storage EXCEPT !["token"] = nullStr] ELSE storage,
    href |-> IF ErrorStatus(error) = 401 /\ win THEN LOGIN_HREF ELSE location,
    toasts |-> << [type |-> "error", text |-> GENERIC_MESSAGE] >>,
    reject |-> error ]

\* api.interceptors.response.use, the error handler: the storage and the
\* location it leaves, the notifications it emits and the error the returned
\* promise is rejected with.
responseRejected(win, storage, location, error) ==
  [ localStorage |-> IF ErrorStatus(error) = 401 /\ win
                     THEN [storage EXCEPT !["token"] = nullStr] ELSE storage,
    href |-> IF ErrorStatus(error) = 401 /\ win THEN LOGIN_HREF ELSE location,
    toasts |-> << [type |-> "error", text |-> OrElse(ErrorMessage(error), GENERIC_MESSAGE)] >>,
    reject |-> error ]

\* ------------------------------------------- tasks service (services/tasks.ts)
FilterKeys == {"completed", "priority", "page", "limit"}

\* URLSearchParams.toString(): name=value pairs joined by "&".
RECURSIVE URLSearchParamsToString(_)
URLSearchParamsToString(params) ==
  IF params = <<>> THEN ""
  ELSE params[1][1] \o "=" \o params[1][2]
       \o (IF Len(params) > 1 THEN "&" ELSE "")
       \o URLSearchParamsToString(Tail(params))

\* tasksService.getTasks: the parameters appended, in order.
getTasksParams(filters) ==
  (IF Defined(filters, "completed")
   THEN << <<"completed", StringOfBoolean(filters["completed"][1])>> >> ELSE <<>>)
  \o (IF Defined(filters, "priority") /\ TruthyString(filters["priority"][1])
      THEN << <<"priority", filters["priority"][1]>> >> ELSE <<>>)
  \o (IF Defined(filters, "page") /\ TruthyNumber(filters["page"][1])
      THEN << <<"page", StringOfNumber(filters["page"][1])>> >> ELSE <<>>)
  \o (IF Defined(filters, "limit") /\ TruthyNumber(filters["limit"][1])
      THEN << <<"limit", StringOfNumber(filters["limit"][1])>> >> ELSE <<>>)

\* tasksService.getTasks: the query string of the request.
getTasksQuery(filters) == URLSearchParamsToString(getTasksParams(filters))

\* The URL each service function requests.
ServiceUrl(kind, id, filters) ==
  CASE kind = "fetchTasks" -> "/api/tasks?" \o getTasksQuery(filters)
    [] kind = "fetchTask"  -> "/api/tasks/" \o id
    [] kind = "createTask" -> "/api/tasks"
    [] kind = "updateTask" -> "/api/tasks/" \o id
    [] kind = "deleteTask" -> "/api/tasks/" \o id
    [] OTHER               -> "/auth/register"

\* ----------------------------------------------- React Query: the query key
\* A hash that keeps a property set to undefined apart from an omitted one.
hashKey_KeepUndefined(filters) ==
  [k \in DOMAIN filters |-> IF filters[k] = <<>> THEN <<"null">> ELSE <<ToString(filters[k][1])>>]

\* hashKey(["tasks", filters]): JSON.stringify with the object's keys sorted;
\* JSON.stringify leaves out a property whose value is undefined.
hashKey(filters) ==
  [k \in {j \in DOMAIN filters : filters[j] # <<>>} |-> <<ToString(filters[k][1])>>]

\* ------------------------------------------------ task slice (taskSlice.ts)
initialState ==
  [ tasks |-> <<>>,
    currentTask |-> null,
    isLoading |-> FALSE,
    error |-> nullStr,
    filters |-> [k \in {"page", "limit"} |-> IF k = "page" THEN <<1>> ELSE <<10>>],
    pagination |-> [page |-> 1, limit |-> 10, total |-> 0, totalPages |-> 0] ]

\* A setFilters that replaces the filter set by the payload.
setFilters_Replace(state, payload) == [state EXCEPT !.filters = payload]

setFilters(state, payload) == [state EXCEPT !.filters = Spread(@, payload)]
clearCurrentTask(state) == [state EXCEPT !.currentTask = null]
clearError(state) == [state EXCEPT !.error = nullStr]

\* A pending case that raises the flag but keeps the previous error.
pendingReducer_KeepError(state) == [state EXCEPT !.isLoading = TRUE]

\* The pending case of each of the five thunks.
pendingReducer(state) == [state EXCEPT !.isLoading = TRUE, !.error = nullStr]
\* A rejected case that stores the error but leaves the flag raised.
rejectedReducer_KeepLoading(state, payload) == [state EXCEPT !.error = payload]

\* The rejected case of each of the five thunks.
rejectedReducer(state, payload) == [state EXCEPT !.isLoading = FALSE, !.error = payload]

\* A fetch that keeps a list that is already filled: the first answer wins.
fetchTasksFulfilled_KeepFilled(state, payload) ==
  IF state.tasks # <<>>
  THEN [state EXCEPT !.isLoading = FALSE]
  ELSE [state EXCEPT !.isLoading = FALSE,
                     !.tasks = payload.data,
                     !.pagination = [page |-> payload.page, limit |-> payload.limit,
                                     total |-> payload.total,
                                     totalPages |-> payload.totalPages]]

\* A fetch that adds the received page to the list instead of replacing it.
fetchTasksFulfilled_Append(state, payload) ==
  [state EXCEPT !.isLoading = FALSE,
                !.tasks = @ \o payload.data,
                !.pagination = [page |-> payload.page, limit |-> payload.limit,
                                total |-> payload.total, totalPages |-> payload.totalPages]]

fetchTasksFulfilled(state, payload) ==
  [state EXCEPT !.isLoading = FALSE,
                !.tasks = payload.data,
                !.pagination = [page |-> payload.page, limit |-> payload.limit,
                                total |-> payload.total, totalPages |-> payload.totalPages]]

fetchTaskFulfilled(state, payload) ==
  [state EXCEPT !.isLoading = FALSE, !.currentTask = payload]

\* A create that counts the new task into the pagination's total.
createTaskFulfilled_CountTotal(state, payload) ==
  [state EXCEPT !.isLoading = FALSE, !.tasks = <<payload>> \o @,
                !.pagination.total = @ + 1]

\* A create that puts the new task at the end of the list.
createTaskFulfilled_Append(state, payload) ==
  [state EXCEPT !.isLoading = FALSE, !.tasks = Append(@, payload)]

createTaskFulfilled(state, payload) ==
  [state EXCEPT !.isLoading = FALSE, !.tasks = <<payload>> \o @]

\* Array.prototype.findIndex on _id: the first index (from 0), or -1.
FindIndex(tasks, id) ==
  IF \E i \in 1..Len(tasks) : tasks[i]._id = id
  THEN (CHOOSE i \in 1..Len(tasks) :
          tasks[i]._id = id /\ \A j \in 1..(i - 1) : tasks[j]._id # id) - 1
  ELSE -1

\* state.currentTask?._id === id
CurrentTaskHasId(state, id) == state.currentTask # null /\ state.currentTask._id = id

\* An update that puts the returned task in front instead of replacing.
updateTaskFulfilled_Prepend(state, payload) ==
  [state EXCEPT !.isLoading = FALSE,
                !.tasks = <<payload>> \o @,
                !.currentTask = IF CurrentTaskHasId(state, payload._id) THEN payload ELSE @]

updateTaskFulfilled(state, payload) ==
  LET index == FindIndex(state.tasks, payload._id) IN
  [state EXCEPT !.isLoading = FALSE,
                !.tasks = IF index # -1 THEN [@ EXCEPT ![index + 1] = payload] ELSE @,
                !.currentTask = IF CurrentTaskHasId(state, payload._id) THEN payload ELSE @]

\* Array.prototype.filter
RECURSIVE FilterOutId(_, _)
FilterOutId(tasks, id) ==
  IF tasks = <<>> THEN <<>>
  ELSE (IF tasks[1]._id # id THEN <<tasks[1]>> ELSE <<>>) \o FilterOutId(Tail(tasks), id)

\* A delete that leaves the selected task in place.
deleteTaskFulfilled_KeepCurrent(state, payload) ==
  [state EXCEPT !.isLoading = FALSE, !.tasks = FilterOutId(@, payload)]

deleteTaskFulfilled(state, payload) ==
  [state EXCEPT !.isLoading = FALSE,
                !.tasks = FilterOutId(@, payload),
                !.currentTask = IF CurrentTaskHasId(state, payload) THEN null ELSE @]

\* ---------------------------------------------------- the thunks' payloads
ThunkKinds == {"fetchTasks", "fetchTask", "createTask", "updateTask", "deleteTask"}

FallbackText(kind) ==
  CASE kind = "fetchTasks" -> "Failed to fetch tasks"
    [] kind = "fetchTask"  -> "Failed to fetch task"
    [] kind = "createTask" -> "Failed to create task"
    [] kind = "updateTask" -> "Failed to update task"
    [] OTHER               -> "Failed to delete task"

\* What the payload creator returns when the service call resolved to `response`:
\* fetchTasks returns the response, deleteTask the id it was given, the others
\* response.data.
thunkPayload(kind, id, response) ==
  CASE kind = "fetchTasks" -> response
    [] kind = "deleteTask" -> id
    [] OTHER               -> response.data

\* rejectWithValue(error.response?.data?.message || "Failed to ...")
thunkRejectValue(kind, error) == OrElse(ErrorMessage(error), FallbackText(kind))

\* The fulfilled case of the slice for each thunk.
fulfilledReducer(kind, state, payload) ==
  CASE kind = "fetchTasks" -> fetchTasksFulfilled(state, payload)
    [] kind = "fetchTask"  -> fetchTaskFulfilled(state, payload)
    [] kind = "createTask" -> createTaskFulfilled(state, payload)
    [] kind = "updateTask" -> updateTaskFulfilled(state, payload)
    [] OTHER               -> deleteTaskFulfilled(state, payload)

\* -------------------------------------------------- auth slice (authSlice.ts)
authInitialState == [token |-> nullStr, user |-> null]
setCredentials(state, payload) == [state EXCEPT !.token = payload.token, !.user = payload.user]

\* A logOut that forgets the user and keeps the token.
logOut_KeepToken(state, storage) ==
  [ state |-> [state EXCEPT !.user = null], localStorage |-> storage ]

\* logOut in a browser: the state it leaves and the storage it leaves.
logOut(state, storage) ==
  [ state |-> [state EXCEPT !.token = nullStr, !.user = null],
    localStorage |-> [storage EXCEPT !["authToken"] = nullStr] ]

\* ------------------------------------------------------------------ state
VARIABLES
  window,        \* typeof window !== "undefined"
  localStorage,  \* the browser's storage: key -> string or nullStr
  href,          \* window.location.href
  toasts,        \* the notifications emitted since the latest response arrived,
                 \* each with the request whose handling emitted it and the
                 \* code that emitted it
  reqs,          \* the HTTP requests issued, in order
  task,          \* the Redux state of the task slice
  auth,          \* the Redux state of the auth slice
  uncaught,      \* the exception a dispatch raised, "" when none did
  queries,       \* the React Query cache: hashKey -> entry
  observed,      \* <<filters>> of the mounted useQuery observer, <<>> when unmounted
  running,       \* the request whose promise chain is being run, 0 when none is
  in1, in2,      \* the arguments a pure function is applied to: two filter
                 \* objects, or a state of the slice and a resolved thunk call
  out,           \* what the function made of in1 and in2
  cleared,       \* history: what cleared the session's token last ("401" or
                 \* "logOut"), "" when nothing did or a token was stored since
  server         \* the API server as the client has met it: the task
                 \* identifiers its responses have shown, and those among them
                 \* it assigned to created tasks

vars == << window, localStorage, href, toasts, reqs, task, auth, uncaught,
           queries, observed, running, in1, in2, out, cleared, server >>
svcVars == << in1, in2, out >>
httpVars == << localStorage, href, toasts >>

NoOut == [applied |-> FALSE]

\* The storage key each client's request interceptor reads.
StorageKeyOf(client) == IF client = "api" THEN "token" ELSE "authToken"

\* The request a client sends: the request interceptor has run on its headers.
NewRequest(kind, client, origin, id, filters) ==
  [ kind |-> kind, client |-> client, origin |-> origin, id |-> id, filters |-> filters,
    url |-> ServiceUrl(kind, id, filters),
    headers |-> requestInterceptor(window, localStorage, StorageKeyOf(client), DefaultHeaders),
    stage |-> "sent", ok |-> FALSE, error |-> NoError, response |-> null,
    afterClear |-> cleared # "",
    fresh |-> IF kind = "createTask" THEN TaskIds \ server.shown ELSE {} ]

\* A request whose promise chain has run to its end: only the outcome is kept.
Done(req) ==
  [req EXCEPT !.stage = "done", !.error = NoError, !.response = null, !.kind = "",
              !.id = "", !.filters = EmptyObject, !.url = "", !.headers = DefaultHeaders,
              !.afterClear = FALSE, !.fresh = {}]

\* The requests issued so far for one origin, and the bound on them.
RECURSIVE CountOrigin(_, _)
CountOrigin(rs, origin) ==
  IF rs = <<>> THEN 0
  ELSE (IF rs[1].origin = origin THEN 1 ELSE 0) + CountOrigin(Tail(rs), origin)
WithinBounds(rs) ==
  /\ CountOrigin(rs, "query") <= MaxFetches
  /\ CountOrigin(rs, "mutation") <= MaxMutations
  /\ CountOrigin(rs, "dispatch") + CountOrigin(rs, "register") <= MaxDispatches

\* The notifications the response handler emitted, each with the request it
\* handled and the code that emitted it.
Tag(ts, r) ==
  [i \in 1..Len(ts) |->
     [type |-> ts[i].type, text |-> ts[i].text, req |-> r, by |-> "interceptor"]]

\* ---------------------------------------------------------- React Query
NoEntry == [data |-> FALSE, invalid |-> FALSE, fetch |-> 0]
Entry(q, k) == IF k \in DOMAIN q THEN q[k] ELSE NoEntry

\* query.fetch of the query ["tasks", f], whose queryFn is
\* () => dispatch(fetchTasks(f)).  A fetch in flight is joined (no new request),
\* unless the query holds data and cancelRefetch is set: then the fetch in
\* flight is dropped by the cache (its thunk still runs) and a new one starts.
QueryFetch(q, t, rs, f, cancelRefetch) ==
  LET k == hashKey(f)
      entry == Entry(q, k)
  IN IF entry.fetch # 0 /\ ~(entry.data /\ cancelRefetch)
     THEN [queries |-> (k :> entry) @@ q, task |-> t, reqs |-> rs]
     ELSE [queries |-> (k :> [entry EXCEPT !.fetch = Len(rs) + 1]) @@ q,
           task |-> pendingReducer(t),
           reqs |-> Append(rs, NewRequest("fetchTasks", "api", "query", "", f))]

\* queryClient.invalidateQueries({ queryKey: ["tasks"] }): every ["tasks", ...]
\* entry is marked invalid, and the query of the mounted observer is refetched.
InvalidateQueries(q, t, rs, obs) ==
  LET marked == [k \in DOMAIN q |-> [q[k] EXCEPT !.invalid = TRUE]]
  IN IF obs # <<>> /\ hashKey(obs[1]) \in DOMAIN marked
     THEN QueryFetch(marked, t, rs, obs[1], TRUE)
     ELSE [queries |-> marked, task |-> t, reqs |-> rs]

\* ---------------------------------------------------------------- Init
StorageInit ==
  { [k \in StorageKeys |-> IF k = "token" THEN a ELSE b] :
      a \in TokenValues \cup {nullStr}, b \in {nullStr, "t1"} }
NoStorage == [k \in StorageKeys |-> nullStr]

SystemInit ==
  /\ window \in BOOLEAN
  /\ localStorage \in (IF window THEN StorageInit ELSE {NoStorage})
  /\ href = "/tasks"
  /\ toasts = <<>>
  /\ reqs = <<>>
  /\ task = initialState
  /\ auth = authInitialState
  /\ uncaught = ""
  /\ queries = [k \in {} |-> NoEntry]
  /\ observed = <<>>
  /\ running = 0
  /\ server = [shown |-> {}, created |-> {}]

Init == SystemInit /\ in1 = EmptyObject /\ in2 = EmptyObject /\ out = NoOut /\ cleared = ""

\* ------------------------------------------------- synchronous store actions
\* The payloads the task list hands to updateFilters: handleFilterChange and
\* clearFilters.
FilterPayloads ==
  { [k \in {"completed", "page"} |-> IF k = "page" THEN <<1>> ELSE <<TRUE>>],
    [k \in {"completed", "priority", "page"} |-> IF k = "page" THEN <<1>> ELSE <<>>] }

\* updateFilters(newFilters): dispatch(setFilters(newFilters))
UpdateFilters ==
  /\ running = 0
  /\ \E p \in FilterPayloads :
       /\ setFilters(task, p) # task
       /\ task' = setFilters(task, p)
  /\ UNCHANGED << window, cleared, httpVars, reqs, auth, uncaught, queries, observed, running, svcVars, server >>

ClearCurrentTask ==
  /\ running = 0
  /\ task.currentTask # null
  /\ task' = clearCurrentTask(task)
  /\ UNCHANGED << window, cleared, httpVars, reqs, auth, uncaught, queries, observed, running, svcVars, server >>

ClearError ==
  /\ running = 0
  /\ task.error # nullStr
  /\ task' = clearError(task)
  /\ UNCHANGED << window, cleared, httpVars, reqs, auth, uncaught, queries, observed, running, svcVars, server >>

SetCredentials ==
  /\ running = 0
  /\ \E u \in Users :
       /\ setCredentials(auth, [token |-> "t1", user |-> u]) # auth
       /\ auth' = setCredentials(auth, [token |-> "t1", user |-> u])
  /\ cleared' = ""
  /\ UNCHANGED << window, httpVars, reqs, task, uncaught, queries, observed, running, svcVars, server >>

\* authSlice.logOut.  Outside a browser localStorage is not defined: the
\* reducer throws at its third statement and the draft is discarded.
LogOut ==
  /\ running = 0
  /\ IF window
     THEN /\ auth' = logOut(auth, localStorage).state
          /\ localStorage' = logOut(auth, localStorage).localStorage
          /\ cleared' = "logOut"
          /\ UNCHANGED uncaught
     ELSE /\ uncaught' = "ReferenceError"
          /\ UNCHANGED << auth, localStorage, cleared >>
  /\ UNCHANGED << window, href, toasts, reqs, task, queries, observed, running, svcVars, server >>

\* ------------------------------------------------ the pagination controls
\* isLoading of useTasks: the slice's flag, or the first fetch of the current
\* query still running.
HookIsLoading ==
  LET entry == Entry(queries, hashKey(task.filters)) IN
  task.isLoading \/ (~entry.data /\ entry.fetch # 0)

\* TasksList renders the controls when it is mounted, not loading, and
\* pagination.totalPages > 1 (false for undefined).
ControlsRendered ==
  /\ window
  /\ observed = << task.filters >>
  /\ ~HookIsLoading
  /\ task.pagination.totalPages # undefinedNum
  /\ task.pagination.totalPages > 1

\* The Previous button: updateFilters({ page: pagination.page - 1 }),
\* disabled when pagination.page === 1.
PreviousPage ==
  /\ running = 0
  /\ ControlsRendered
  /\ task.pagination.page # 1
  /\ task' = setFilters(task, [k \in {"page"} |-> << task.pagination.page - 1 >>])
  /\ UNCHANGED << window, cleared, httpVars, reqs, auth, uncaught, queries, observed, running, svcVars, server >>

\* The Next button: updateFilters({ page: pagination.page + 1 }), disabled
\* when pagination.page === pagination.totalPages.
NextPage ==
  /\ running = 0
  /\ ControlsRendered
  /\ task.pagination.page # task.pagination.totalPages
  /\ task' = setFilters(task, [k \in {"page"} |-> << task.pagination.page + 1 >>])
  /\ UNCHANGED << window, cleared, httpVars, reqs, auth, uncaught, queries, observed, running, svcVars, server >>

\* --------------------------------------------------------- the useTasks hook
\* The useQuery observer of a mounted component subscribes to the query of the
\* current filters (on mount and when the key changes) and fetches it: with the
\* default staleTime of 0 every entry is stale.
ObserveQuery ==
  /\ running = 0
  /\ window
  /\ observed # << task.filters >>
  /\ LET res == QueryFetch(queries, task, reqs, task.filters, FALSE) IN
       /\ WithinBounds(res.reqs)
       /\ queries' = res.queries
       /\ task' = res.task
       /\ reqs' = res.reqs
  /\ observed' = << task.filters >>
  /\ UNCHANGED << window, cleared, httpVars, auth, uncaught, running, svcVars, server >>

Unmount ==
  /\ running = 0
  /\ observed # <<>>
  /\ observed' = <<>>
  /\ UNCHANGED << window, cleared, httpVars, reqs, task, auth, uncaught, queries, running, svcVars, server >>

\* dispatch(thunk(arg)): the pending case runs and the service sends its request.
DispatchThunk(kind, origin, id) ==
  /\ running = 0
  /\ WithinBounds(Append(reqs, NewRequest(kind, "api", origin, id, EmptyObject)))
  /\ task' = pendingReducer(task)
  /\ reqs' = Append(reqs, NewRequest(kind, "api", origin, id, EmptyObject))
  /\ UNCHANGED << window, cleared, httpVars, auth, uncaught, queries, observed, running, svcVars, server >>

\* handleCreateTask(data): createTaskMutation.mutate(data)
HandleCreateTask == window /\ DispatchThunk("createTask", "mutation", "")
\* handleUpdateTask(id, data) and handleToggleComplete(id, completed)
HandleUpdateTask == window /\ \E id \in TaskIds : DispatchThunk("updateTask", "mutation", id)
\* handleDeleteTask(id)
HandleDeleteTask == window /\ \E id \in TaskIds : DispatchThunk("deleteTask", "mutation", id)
\* dispatch(fetchTask(id)), in a browser or on a server
DispatchFetchTask == \E id \in TaskIds : DispatchThunk("fetchTask", "dispatch", id)
\* store.dispatch of any thunk of the slice, in a browser or on a server
Dispatch == \E kind \in ThunkKinds, id \in TaskIds : DispatchThunk(kind, "dispatch", id)

\* ------------------------------------------------------------ registration
\* mutation.mutate(data) of the register page: registerUser posts through apiClient.
Register ==
  /\ running = 0
  /\ window
  /\ WithinBounds(Append(reqs, NewRequest("register", "apiClient", "register", "", EmptyObject)))
  /\ reqs' = Append(reqs, NewRequest("register", "apiClient", "register", "", EmptyObject))
  /\ UNCHANGED << window, cleared, httpVars, task, auth, uncaught, queries, observed, running, svcVars, server >>

\* ------------------------------------------------------------- responses
RegisterTokens == {"t2"}

\* The values a service call can resolve to, by its declared return type.
Responses(req) ==
  CASE req.kind = "fetchTasks" -> PaginatedResponses
    [] req.kind = "fetchTask"  -> { ApiResponse([_id |-> req.id, completed |-> c]) : c \in BOOLEAN }
    [] req.kind = "createTask" -> { ApiResponse([_id |-> i, completed |-> FALSE]) : i \in TaskIds }
    [] req.kind = "updateTask" -> { ApiResponse([_id |-> req.id, completed |-> c]) : c \in BOOLEAN }
    [] req.kind = "deleteTask" -> { ApiResponse(null) }
    [] OTHER -> { ApiResponse([token |-> t, user |-> u]) : t \in RegisterTokens, u \in Users }

\* The task identifiers a response shows to the client.
IdsOf(kind, resp) ==
  CASE kind = "fetchTasks" -> { resp.data[i]._id : i \in 1..Len(resp.data) }
    [] kind \in {"fetchTask", "createTask", "updateTask"} -> { resp.data._id }
    [] OTHER -> {}

\* The server gives a created task an identifier of its own: one that no
\* response had shown when the POST was sent (req.fresh) and that no other
\* created task got.  It answers a GET for a page with that page's number.
ServerAnswers(req, resp) ==
  /\ req.kind = "createTask" => resp.data._id \in req.fresh \ server.created
  /\ (req.kind = "fetchTasks" /\ Defined(req.filters, "page")) =>
       resp.page = req.filters.page[1]

\* A 2xx response arrives: the response interceptor hands it on unchanged.
ReceiveResponse ==
  /\ running = 0
  /\ \E r \in 1..Len(reqs) :
       /\ reqs[r].stage = "sent"
       /\ \E resp \in Responses(reqs[r]) :
            /\ ServerAnswers(reqs[r], resp)
            /\ reqs' = [reqs EXCEPT ![r].stage = "resolved", ![r].ok = TRUE,
                                    ![r].response = resp]
            /\ server' = [ shown |-> server.shown \cup IdsOf(reqs[r].kind, resp),
                           created |-> IF reqs[r].kind = "createTask"
                                       THEN server.created \cup { resp.data._id }
                                       ELSE server.created ]
       /\ running' = r
  /\ toasts' = <<>>
  /\ UNCHANGED << window, cleared, localStorage, href, task, auth, uncaught, queries, observed, svcVars >>

\* The request fails (an error status, no connection, the 15 s timeout): the
\* error handler of the response interceptor runs (api has one, apiClient none).
ReceiveError ==
  /\ running = 0
  /\ \E r \in 1..Len(reqs) :
       /\ reqs[r].stage = "sent"
       /\ running' = r
       /\ \E e \in Errors :
            IF reqs[r].client = "api"
            THEN LET res == responseRejected(window, localStorage, href, e) IN
                   /\ localStorage' = res.localStorage
                   /\ href' = res.href
                   /\ toasts' = Tag(res.toasts, r)
                   /\ reqs' = [reqs EXCEPT ![r].stage = "failed", ![r].error = res.reject]
                   /\ cleared' = IF ErrorStatus(e) = 401 /\ window THEN "401" ELSE cleared
            ELSE /\ reqs' = [reqs EXCEPT ![r].stage = "failed", ![r].error = e]
                 /\ toasts' = <<>>
                 /\ UNCHANGED << localStorage, href, cleared >>
  /\ UNCHANGED << window, task, auth, uncaught, queries, observed, svcVars, server >>

\* The thunk's service call resolved: it dispatches its fulfilled action.
ThunkFulfilled ==
  /\ running # 0
  /\ reqs[running].kind \in ThunkKinds
  /\ reqs[running].stage = "resolved"
  /\ task' = fulfilledReducer(reqs[running].kind, task,
                thunkPayload(reqs[running].kind, reqs[running].id, reqs[running].response))
  /\ reqs' = [reqs EXCEPT ![running].stage = "fulfilled"]
  /\ UNCHANGED << window, cleared, httpVars, auth, uncaught, queries, observed, running, svcVars, server >>

\* The thunk's service call was rejected: it dispatches its rejected action.
ThunkRejected ==
  /\ running # 0
  /\ reqs[running].kind \in ThunkKinds
  /\ reqs[running].stage = "failed"
  /\ task' = rejectedReducer(task, thunkRejectValue(reqs[running].kind, reqs[running].error))
  /\ reqs' = [reqs EXCEPT ![running].stage = "rejected"]
  /\ UNCHANGED << window, cleared, httpVars, auth, uncaught, queries, observed, running, svcVars, server >>

\* ------------------------------------------------ promise continuations
SuccessText(kind) ==
  CASE kind = "createTask" -> "Task created successfully"
    [] kind = "updateTask" -> "Task updated successfully"
    [] OTHER               -> "Task deleted successfully"

\* The promise dispatch(thunk(arg)) returns, which is the mutationFn's: a thunk
\* made by createAsyncThunk resolves it with the action it dispatched last,
\* the fulfilled one or the rejected one.
dispatchPromise(stage) == "resolved"

\* onSuccess of the three mutations of useTasks.
MutationOnSuccess(r) ==
  LET res == InvalidateQueries(queries, task, reqs, observed) IN
    /\ WithinBounds(res.reqs)
    /\ toasts' = Append(toasts, [type |-> "success", text |-> SuccessText(reqs[r].kind),
                                 req |-> r, by |-> "onSuccess"])
    /\ queries' = res.queries
    /\ task' = res.task
    /\ reqs' = [res.reqs EXCEPT ![r] = Done(@)]

\* onError of the three mutations of useTasks: error.message || "Failed to ...".
\* The error would be the rejection of the mutationFn's promise.
MutationOnError(r) ==
  /\ toasts' = Append(toasts, [type |-> "error", text |-> FallbackText(reqs[r].kind),
                                 req |-> r, by |-> "onError"])
  /\ reqs' = [reqs EXCEPT ![r] = Done(@)]
  /\ UNCHANGED << queries, task >>

\* The mutationFn's promise settles: useMutation runs onSuccess or onError.
MutationSettled ==
  /\ running # 0
  /\ reqs[running].origin = "mutation"
  /\ reqs[running].stage \in {"fulfilled", "rejected"}
  /\ IF dispatchPromise(reqs[running].stage) = "resolved"
     THEN MutationOnSuccess(running)
     ELSE MutationOnError(running)
  /\ running' = 0
  /\ UNCHANGED << window, cleared, localStorage, href, auth, uncaught, observed, svcVars, server >>

\* The queryFn's promise settles (it is dispatch's, and always resolves): the
\* cache takes the result as the query's data, unless it dropped this fetch.
QuerySettled ==
  /\ running # 0
  /\ reqs[running].origin = "query"
  /\ reqs[running].stage \in {"fulfilled", "rejected"}
  /\ LET k == hashKey(reqs[running].filters) IN
       queries' = IF k \in DOMAIN queries /\ queries[k].fetch = running
                  THEN [queries EXCEPT ![k] = [data |-> TRUE, invalid |-> FALSE, fetch |-> 0]]
                  ELSE queries
  /\ reqs' = [reqs EXCEPT ![running] = Done(@)]
  /\ running' = 0
  /\ UNCHANGED << window, cleared, httpVars, task, auth, uncaught, observed, svcVars, server >>

\* A thunk dispatched directly: nothing awaits its promise.
DispatchSettled ==
  /\ running # 0
  /\ reqs[running].origin = "dispatch"
  /\ reqs[running].stage \in {"fulfilled", "rejected"}
  /\ reqs' = [reqs EXCEPT ![running] = Done(@)]
  /\ running' = 0
  /\ UNCHANGED << window, cleared, httpVars, task, auth, uncaught, queries, observed, svcVars, server >>

\* The register mutation settles: onSuccess stores data.data.token under
\* "authToken" and pushes /dashboard; onError logs to the console.
RegisterSettled ==
  /\ running # 0
  /\ reqs[running].origin = "register"
  /\ reqs[running].stage \in {"resolved", "failed"}
  /\ IF reqs[running].stage = "resolved"
     THEN /\ localStorage' = [localStorage EXCEPT !["authToken"] = reqs[running].response.data.token]
          /\ href' = "/dashboard"
          /\ cleared' = ""
     ELSE UNCHANGED << localStorage, href, cleared >>
  /\ reqs' = [reqs EXCEPT ![running] = Done(@)]
  /\ running' = 0
  /\ UNCHANGED << window, toasts, task, auth, uncaught, queries, observed, svcVars, server >>

\* ------------------------------------------------------------- page load
\* The document is loaded anew: by the navigation that assigning
\* window.location.href started, or by the user.  The stores and the query
\* cache are built again from their initial states, the requests still in
\* flight are dropped with the old page; storage and location persist.
PageLoad ==
  /\ running = 0
  /\ window
  /\ << task, auth, queries, observed >> # << initialState, authInitialState, [k \in {} |-> NoEntry], <<>> >>
  /\ task' = initialState
  /\ auth' = authInitialState
  /\ queries' = [k \in {} |-> NoEntry]
  /\ observed' = <<>>
  /\ reqs' = [r \in 1..Len(reqs) |-> Done(reqs[r])]
  /\ toasts' = <<>>
  /\ uncaught' = ""
  /\ UNCHANGED << window, cleared, localStorage, href, running, svcVars, server >>

\* ------------------------------------------------------------------ Next
Next ==
  \/ PreviousPage
  \/ NextPage
  \/ PageLoad
  \/ UpdateFilters
  \/ ClearCurrentTask
  \/ ClearError
  \/ SetCredentials
  \/ LogOut
  \/ ObserveQuery
  \/ Unmount
  \/ HandleCreateTask
  \/ HandleUpdateTask
  \/ HandleDeleteTask
  \/ DispatchFetchTask
  \/ Dispatch
  \/ Register
  \/ ReceiveResponse
  \/ ReceiveError
  \/ ThunkFulfilled
  \/ ThunkRejected
  \/ MutationSettled
  \/ QuerySettled
  \/ DispatchSettled
  \/ RegisterSettled

Spec == Init /\ [][Next]_vars

\* The task store and the useTasks hook in a browser holding a token.
HookInit ==
  /\ Init
  /\ window
  /\ localStorage = [k \in StorageKeys |-> IF k = "token" THEN "t1" ELSE nullStr]

HookNext ==
  \/ UpdateFilters
  \/ ObserveQuery
  \/ Unmount
  \/ HandleCreateTask
  \/ HandleUpdateTask
  \/ HandleDeleteTask
  \/ ReceiveResponse
  \/ ReceiveError
  \/ ThunkFulfilled
  \/ ThunkRejected
  \/ MutationSettled
  \/ QuerySettled

HookSpec == HookInit /\ [][HookNext]_vars

\* The two axios clients, the browser's storage and the auth slice.
HttpNext ==
  \/ PageLoad
  \/ SetCredentials
  \/ LogOut
  \/ DispatchFetchTask
  \/ Register
  \/ ReceiveResponse
  \/ ReceiveError
  \/ ThunkFulfilled
  \/ ThunkRejected
  \/ DispatchSettled
  \/ RegisterSettled

HttpSpec == Init /\ [][HttpNext]_vars

\* The list query of useTasks alone: the filters change, the observer follows
\* them, the requests are answered in any order.
FetchNext ==
  \/ UpdateFilters
  \/ ObserveQuery
  \/ Unmount
  \/ ReceiveResponse
  \/ ReceiveError
  \/ ThunkFulfilled
  \/ ThunkRejected
  \/ QuerySettled

FetchSpec == HookInit /\ [][FetchNext]_vars

\* The task list being paged: it shows the second page of five, the state that
\* the first page's answer (FullPage, 47 tasks in 5 pages), one click on Next
\* and the answer to it leave. The two settled requests are not kept in reqs.
PagedInit ==
  /\ window = TRUE
  /\ localStorage = [k \in StorageKeys |-> IF k = "token" THEN "t1" ELSE nullStr]
  /\ href = "/tasks"
  /\ toasts = <<>>
  /\ reqs = <<>>
  /\ auth = authInitialState
  /\ uncaught = ""
  /\ running = 0
  /\ in1 = EmptyObject /\ in2 = EmptyObject /\ out = NoOut /\ cleared = ""
  /\ LET f == [k \in {"page", "limit"} |-> IF k = "page" THEN <<2>> ELSE <<10>>] IN
       /\ task = [initialState EXCEPT
                    !.filters = f,
                    !.tasks = << [_id |-> "a", completed |-> FALSE],
                                 [_id |-> "b", completed |-> FALSE] >>,
                    !.pagination = [page |-> 2, limit |-> 10, total |-> 47, totalPages |-> 5]]
       /\ queries = [h \in {hashKey(f), hashKey(initialState.filters)} |->
                       [data |-> TRUE, invalid |-> FALSE, fetch |-> 0]]
       /\ observed = << f >>
       /\ server = [shown |-> {"a", "b"} \cup { FullPage[i]._id : i \in 1..PAGE_LIMIT },
                    created |-> {}]

PageNext ==
  \/ PreviousPage
  \/ NextPage
  \/ ObserveQuery
  \/ Unmount
  \/ HandleDeleteTask
  \/ ReceiveResponse
  \/ ReceiveError
  \/ ThunkFulfilled
  \/ ThunkRejected
  \/ MutationSettled
  \/ QuerySettled

PageSpec == PagedInit /\ [][PageNext]_vars

\* The task store alone, its actions and thunks dispatched directly.
StoreNext ==
  \/ UpdateFilters
  \/ ClearCurrentTask
  \/ ClearError
  \/ Dispatch
  \/ ReceiveResponse
  \/ ReceiveError
  \/ ThunkFulfilled
  \/ ThunkRejected
  \/ DispatchSettled

StoreSpec == HookInit /\ [][StoreNext]_vars

\* ------------------------------------------------------- pure functions
\* The service's getTasks, the cache's hashKey and the fulfilled cases of the
\* slice applied on their own to arguments drawn from bounded sets.

\* An optional field of TaskFilters: not an own property, or an own property
\* holding undefined (<<>>) or a value.
Field(values) ==
  {[own |-> FALSE, v |-> <<>>], [own |-> TRUE, v |-> <<>>]}
    \cup {[own |-> TRUE, v |-> <<x>>] : x \in values}
FilterObject(c, p, g, l) ==
  LET f == [completed |-> c, priority |-> p, page |-> g, limit |-> l] IN
  [k \in {j \in FilterKeys : f[j].own} |-> f[k].v]
\* TaskFilters values: completed?: boolean, priority?: Priority, page?, limit?: number
FilterObjects ==
  { FilterObject(c, p, g, l) :
      c \in Field(BOOLEAN), p \in Field({"high"}), g \in Field({0, 2}), l \in Field({0, 10}) }
IsFilters(x) == DOMAIN x \subseteq FilterKeys

\* States of the slice a fulfilled case can meet, and the thunk calls that
\* resolve: the thunk's kind, the id it was given and the service's answer.
TaskLists == UNION { [1..n -> Tasks] : n \in 0..MaxLen }
StoreStates ==
  { [initialState EXCEPT !.tasks = ts, !.currentTask = ct, !.isLoading = TRUE] :
      ts \in TaskLists, ct \in Tasks \cup {null} }
ThunkCalls ==
  UNION { { [kind |-> kind, id |-> id, response |-> resp] :
              resp \in Responses([kind |-> kind, id |-> id]) } :
          kind \in ThunkKinds, id \in TaskIds }

\* ---- route protection (src/middleware.ts)
\* A pathname is a sequence of tokens, "/" or a run of other characters:
\* <<"/", "dashboard", "x">> is /dashboardx, <<"/", "dashboard", "/", "x">> is
\* /dashboard/x.
PathTokens == {"/", "dashboard", "x"}
Pathnames ==
  { p \in UNION { [1..n -> PathTokens] : n \in 1..MaxPath } :
      /\ p[1] = "/"
      /\ \A i \in 1..(Len(p) - 1) : ~(p[i] = "/" /\ p[i + 1] = "/") }
DASHBOARD == << "/", "dashboard" >>
\* pathname.startsWith(prefix)
StartsWith(pathname, prefix) ==
  Len(pathname) >= Len(prefix) /\ SubSeq(pathname, 1, Len(prefix)) = prefix
\* config.matcher "/dashboard/:path*": /dashboard itself and every path under
\* /dashboard/.
Matcher(pathname) ==
  pathname = DASHBOARD \/ StartsWith(pathname, DASHBOARD \o << "/" >>)
\* The requests a navigation makes: the authToken cookie is absent (<<>>) or
\* holds a string.
NavigationRequests ==
  { [cookies |-> [authToken |-> c], pathname |-> p] :
      c \in {<<>>, <<"">>, <<"t1">>}, p \in Pathnames }
NextResponse == [type |-> "next", location |-> ""]
Redirect(location) == [type |-> "redirect", location |-> location]

\* A middleware that sends every dashboard request to the login page.
middleware_IgnoreToken(request) ==
  IF StartsWith(request.pathname, DASHBOARD) THEN Redirect("/login") ELSE NextResponse

\* middleware(request)
middleware(request) ==
  LET authToken == request.cookies.authToken IN
  IF ~(authToken # <<>> /\ TruthyString(authToken[1]))
       /\ StartsWith(request.pathname, DASHBOARD)
  THEN Redirect("/login")
  ELSE NextResponse

\* What a navigation gets: the middleware runs for the paths its matcher
\* selects, every other request goes on to its route.
Navigation(request) ==
  IF Matcher(request.pathname) THEN middleware(request) ELSE NextResponse

\* ---- auth slice
\* States of the auth slice, and the actions dispatched on them in a browser:
\* setCredentials with its payload, logOut with the storage it meets.
AuthStates == [token : {nullStr, "t1"}, user : Users \cup {null}]
AuthActions ==
  { [kind |-> "setCredentials", payload |-> [token |-> t, user |-> u]] :
      t \in {"t1", "t2"}, u \in Users }
  \cup { [kind |-> "logOut", localStorage |-> st] : st \in StorageInit }

\* ---- setFilters (src/store/taskSlice.ts)
\* States of the slice with any filter set, and the setFilters actions.
FilterStates ==
  { [st EXCEPT !.filters = f] :
      st \in { initialState,
               [initialState EXCEPT !.tasks = << [_id |-> "a", completed |-> FALSE] >>,
                                    !.currentTask = [_id |-> "a", completed |-> FALSE],
                                    !.isLoading = TRUE,
                                    !.error = "Failed to fetch tasks",
                                    !.pagination.total = 47] },
      f \in FilterObjects }
FilterActions == { [kind |-> "setFilters", payload |-> p] : p \in FilterObjects }

PureInit ==
  /\ SystemInit
  /\ window
  /\ localStorage = [k \in StorageKeys |-> IF k = "token" THEN "t1" ELSE nullStr]
  /\ cleared = ""
  /\ out = NoOut
  /\ \/ \E f1, f2 \in FilterObjects : in1 = f1 /\ in2 = f2
     \/ \E st \in StoreStates, call \in ThunkCalls : in1 = st /\ in2 = call
     \/ \E request \in NavigationRequests : in1 = request /\ in2 = [kind |-> "navigation"]
     \/ \E st \in AuthStates, action \in AuthActions : in1 = st /\ in2 = action
     \/ \E st \in FilterStates, action \in FilterActions : in1 = st /\ in2 = action

\* tasksService.getTasks(in1) and getTasks(in2), and the keys useQuery files
\* ["tasks", in1] and ["tasks", in2] under.
CallGetTasks ==
  /\ ~out.applied
  /\ IsFilters(in1)
  /\ out' = [ applied |-> TRUE,
              query1 |-> getTasksQuery(in1), query2 |-> getTasksQuery(in2),
              key1 |-> hashKey(in1), key2 |-> hashKey(in2) ]
  /\ UNCHANGED << window, cleared, httpVars, reqs, task, auth, uncaught, queries,
                  observed, running, in1, in2, server >>

\* The fulfilled case of the thunk in2 applied to the state in1.
ApplyFulfilled ==
  /\ ~out.applied
  /\ ~IsFilters(in1)
  /\ in2.kind \in ThunkKinds
  /\ out' = [ applied |-> TRUE,
              state |-> fulfilledReducer(in2.kind, in1,
                          thunkPayload(in2.kind, in2.id, in2.response)) ]
  /\ UNCHANGED << window, cleared, httpVars, reqs, task, auth, uncaught, queries,
                  observed, running, in1, in2, server >>

\* A navigation to in1.pathname with the cookies in1.cookies.
Navigate ==
  /\ ~out.applied
  /\ ~IsFilters(in1)
  /\ in2.kind = "navigation"
  /\ out' = [applied |-> TRUE, response |-> Navigation(in1)]
  /\ UNCHANGED << window, cleared, httpVars, reqs, task, auth, uncaught, queries,
                  observed, running, in1, in2, server >>

\* The auth slice's reducer for the action in2 applied to the state in1.
ApplyAuth ==
  /\ ~out.applied
  /\ ~IsFilters(in1)
  /\ in2.kind \in {"setCredentials", "logOut"}
  /\ out' = IF in2.kind = "setCredentials"
            THEN [applied |-> TRUE, state |-> setCredentials(in1, in2.payload)]
            ELSE [applied |-> TRUE, state |-> logOut(in1, in2.localStorage).state,
                  localStorage |-> logOut(in1, in2.localStorage).localStorage]
  /\ UNCHANGED << window, cleared, httpVars, reqs, task, auth, uncaught, queries,
                  observed, running, in1, in2, server >>

\* dispatch(setFilters(in2.payload)) on the state in1.
ApplySetFilters ==
  /\ ~out.applied
  /\ ~IsFilters(in1)
  /\ in2.kind = "setFilters"
  /\ out' = [applied |-> TRUE, state |-> setFilters(in1, in2.payload)]
  /\ UNCHANGED << window, cleared, httpVars, reqs, task, auth, uncaught, queries,
                  observed, running, in1, in2, server >>

PureNext ==
  \/ CallGetTasks
  \/ ApplyFulfilled
  \/ Navigate
  \/ ApplyAuth
  \/ ApplySetFilters

PureSpec == PureInit /\ [][PureNext]_vars

\* ======================================================================
\* Properties
\* ======================================================================
\* The requests whose promise chain has not run to its end.
Live(r) == r \in 1..Len(reqs) /\ reqs[r].stage # "done"
\* A 401 came back for request r of the api client in a browser.
Unauthorized(r) ==
  /\ Live(r)
  /\ window
  /\ reqs[r].client = "api"
  /\ reqs[r].stage \in {"failed", "rejected"}
  /\ ErrorStatus(reqs[r].error) = 401

\* C1: whenever a response with status 401 arrives in a browser, for any
\* request of the api client, the response handler has removed the stored
\* token, set the location to /auth/login, and the promise handed to the caller
\* is rejected with that error (the thunk that awaited it takes its rejected
\* branch and records an error).
C1_Unauthorized ==
  \A r \in 1..Len(reqs) :
    Unauthorized(r) =>
      /\ localStorage["token"] = nullStr
      /\ href = LOGIN_HREF
      /\ ~reqs[r].ok
      /\ reqs[r].error \in HttpErrors
      /\ (reqs[r].stage = "rejected" => task.error # nullStr)

\* A request sent with a token got a 401: the token is gone, the page is left.
C1_Witness ==
  \E r \in 1..Len(reqs) :
    /\ Unauthorized(r)
    /\ HasAuthorization(reqs[r].headers)
    /\ localStorage["token"] = nullStr
    /\ href = LOGIN_HREF

\* C2: once the token has been cleared, by the 401 handling of the api client
\* or by logOut, every request sent afterwards through the api client omits the
\* Authorization header, until a new token is stored.
C2_ClearedOmits ==
  \A r \in 1..Len(reqs) :
    (Live(r) /\ reqs[r].client = "api" /\ reqs[r].afterClear)
      => ~HasAuthorization(reqs[r].headers)

\* C3: every request sent in a browser carries Authorization = "Bearer " +
\* token exactly when the storage key its client reads holds a non-empty
\* string at the moment it is sent; otherwise it carries no such header.
C3_BearerIffToken ==
  [][ (window /\ Len(reqs') = Len(reqs) + 1) =>
        LET q == reqs'[Len(reqs')]
            token == localStorage[StorageKeyOf(q.client)]
        IN IF token # nullStr /\ token # ""
           THEN HasAuthorization(q.headers) /\ q.headers["Authorization"] = "Bearer " \o token
           ELSE ~HasAuthorization(q.headers) ]_vars

\* Two requests in flight in a browser: one of the client whose key holds a
\* token, with the header; one of the client whose key holds none, without.
C3_Witness ==
  /\ window
  /\ \E r1, r2 \in 1..Len(reqs) :
       /\ reqs[r1].stage = "sent" /\ reqs[r2].stage = "sent"
       /\ localStorage[StorageKeyOf(reqs[r1].client)] = "t1"
       /\ HasAuthorization(reqs[r1].headers)
       /\ reqs[r1].headers["Authorization"] = "Bearer t1"
       /\ localStorage[StorageKeyOf(reqs[r2].client)] \in {nullStr, ""}
       /\ ~HasAuthorization(reqs[r2].headers)

\* The notifications on screen that the handling of request r emitted.
NotificationsOf(ts, r) == {i \in 1..Len(ts) : ts[i].req = r}
\* The promise of the mutation running settles in this step.
MutationSettles ==
  /\ running # 0
  /\ running' = 0
  /\ reqs[running].origin = "mutation"

\* C4: for each mutation started through useTasks, the on-success handling
\* (success notification, invalidation) runs only when the write request
\* succeeded; when the write request failed the on-error handling runs and the
\* on-success handling does not.
C4_HandlersMatchOutcome ==
  [][ MutationSettles =>
        LET r == running
            by(h) == \E i \in NotificationsOf(toasts', r) : toasts'[i].by = h
        IN /\ by("onSuccess") => reqs[r].ok
           /\ ~reqs[r].ok => (by("onError") /\ ~by("onSuccess")) ]_vars

\* C5: each mutation started through useTasks has produced exactly one outcome
\* notification by the time it settles: a success one if the write succeeded,
\* a failure one if it failed; never both kinds and never two.
C5_OneNotification ==
  [][ MutationSettles =>
        LET r == running
            mine == NotificationsOf(toasts', r)
        IN /\ Cardinality(mine) = 1
           /\ \A i \in mine :
                toasts'[i].type = (IF reqs[r].ok THEN "success" ELSE "error") ]_vars

\* C6: after a successful create, update or delete the query of the filters
\* the mounted observer reads is marked invalid and exactly one refetch request
\* is issued for it (not zero, not more); when that refetch settles the entry is
\* valid again.
C6_OneRefetch ==
  [][ /\ (MutationSettles /\ reqs[running].ok /\ observed # <<>>
            /\ hashKey(observed[1]) \in DOMAIN queries) =>
          LET k == hashKey(observed[1]) IN
            /\ queries'[k].invalid
            /\ Len(reqs') = Len(reqs) + 1
            /\ reqs'[Len(reqs')].kind = "fetchTasks"
            /\ reqs'[Len(reqs')].filters = observed[1]
            /\ queries'[k].fetch = Len(reqs')
      /\ (running # 0 /\ running' = 0 /\ reqs[running].origin = "query"
            /\ hashKey(reqs[running].filters) \in DOMAIN queries
            /\ queries[hashKey(reqs[running].filters)].fetch = running) =>
          ~queries'[hashKey(reqs[running].filters)].invalid ]_vars

\* The fulfilled case of thunk `kind` was applied to the state in1.
Fulfilled(kind) == out.applied /\ ~IsFilters(in1) /\ in2.kind = kind
\* The positions of a task list holding identifier id.
PositionsOf(tasks, id) == {i \in 1..Len(tasks) : tasks[i]._id = id}
HasId(t, id) == t # null /\ t._id = id

C8_DeleteRemoves ==
  Fulfilled("deleteTask") =>
    LET X == in2.id
        Keep(t) == t._id # X
    IN /\ PositionsOf(out.state.tasks, X) = {}
       /\ out.state.tasks = SelectSeq(in1.tasks, Keep)
       /\ out.state.currentTask =
            (IF HasId(in1.currentTask, X) THEN null ELSE in1.currentTask)

\* A delete of a task that is listed, before another task, and selected.
C8_Witness ==
  /\ Fulfilled("deleteTask")
  /\ Len(in1.tasks) = 2
  /\ in1.tasks[1]._id = in2.id
  /\ in1.tasks[2]._id # in2.id
  /\ HasId(in1.currentTask, in2.id)
  /\ out.state.tasks = << in1.tasks[2] >>
  /\ out.state.currentTask = null

\* The query string with one name=value parameter for every field of f that is
\* set (not undefined), in the order completed, priority, page, limit.
ParamOf(f, k) ==
  IF Prop(f, k) = <<>> THEN <<>>
  ELSE << << k, CASE k = "completed" -> (IF f[k][1] THEN "true" ELSE "false")
                  [] k = "priority"  -> f[k][1]
                  [] OTHER           -> ToString(f[k][1]) >> >>
QueryOfSetFields(f) ==
  URLSearchParamsToString(ParamOf(f, "completed") \o ParamOf(f, "priority")
                            \o ParamOf(f, "page") \o ParamOf(f, "limit"))

\* C9: for every filter object the query string getTasks builds has one
\* name=value parameter for exactly the fields that are set, in the order
\* completed, priority, page, limit (completed = false and a numeric page
\* included); for {completed: true, priority: "high", page: 2, limit: 10} it
\* is completed=true&priority=high&page=2&limit=10.
C9_ParamsOfSetFields ==
  (out.applied /\ IsFilters(in1)) =>
    /\ out.query1 = QueryOfSetFields(in1)
    /\ in1 = FilterObject([own |-> TRUE, v |-> <<TRUE>>], [own |-> TRUE, v |-> <<"high">>],
                          [own |-> TRUE, v |-> <<2>>], [own |-> TRUE, v |-> <<10>>])
         => out.query1 = "completed=true&priority=high&page=2&limit=10"

\* Two filter objects with the same field values, where an omitted field and a
\* field set to undefined count as the same.
SameFields(f1, f2) == \A k \in FilterKeys : Prop(f1, k) = Prop(f2, k)

\* C10: for two filter objects with identical field values (omitted and
\* undefined counting as the same) getTasks builds identical query parameters
\* and the cache files both under the same key.
C10_SameFiltersSameKey ==
  (out.applied /\ IsFilters(in1) /\ SameFields(in1, in2)) =>
    /\ out.query1 = out.query2
    /\ out.key1 = out.key2

\* Two objects that differ only in a field one omits and the other sets to
\* undefined, with a field set in both.
C10_Witness ==
  /\ out.applied
  /\ IsFilters(in1)
  /\ SameFields(in1, in2)
  /\ DOMAIN in1 # DOMAIN in2
  /\ \E k \in FilterKeys : Prop(in1, k) # <<>>
  /\ out.query1 = out.query2
  /\ out.query1 # ""
  /\ out.key1 = out.key2

\* The error handler of api's response interceptor runs in this step, on the
\* request that is running afterwards.
ResponseRejects ==
  /\ running = 0
  /\ running' # 0
  /\ reqs'[running'].client = "api"
  /\ reqs'[running'].stage = "failed"

\* C11: for every failed response whose status is not 401 the api client emits
\* exactly one notification, whose text is the server's message when there is
\* one and "Something went wrong" otherwise, leaves the stored token and the
\* location as they were, and rejects to the caller the error it received.
C11_OtherErrors ==
  [][ (ResponseRejects /\ ErrorStatus(reqs'[running'].error) # 401) =>
        LET e == reqs'[running'].error IN
          /\ Len(toasts') = 1
          /\ toasts'[1].type = "error"
          /\ toasts'[1].req = running'
          /\ toasts'[1].text = (IF e.response /\ e.message # undefinedStr
                                THEN e.message ELSE "Something went wrong")
          /\ localStorage' = localStorage
          /\ href' = href
          /\ e \in Errors
          /\ ~reqs'[running'].ok ]_vars

\* A 500 with a message came back for a request sent with a token: the
\* message is on screen, the token and the location are as before.
C11_Witness ==
  /\ running # 0
  /\ reqs[running].client = "api"
  /\ reqs[running].stage = "failed"
  /\ reqs[running].error.status = 500
  /\ Len(toasts) = 1
  /\ toasts[1].text = "Title is required"
  /\ window
  /\ HasAuthorization(reqs[running].headers)
  /\ localStorage["token"] = "t1"
  /\ href = "/tasks"

\* C12: outside a browser (window undefined) sending a request through the
\* api client and handling a failed response, a 401 or any other, read and
\* write no storage, navigate nowhere and notify nobody.
C12_NoBrowserNoEffects ==
  [][ ~window =>
        /\ (Len(reqs') = Len(reqs) + 1 /\ reqs'[Len(reqs')].client = "api") =>
             /\ reqs'[Len(reqs')].headers = DefaultHeaders
             /\ localStorage' = localStorage
             /\ href' = href
             /\ toasts' = toasts
        /\ ResponseRejects =>
             /\ localStorage' = localStorage
             /\ href' = href
             /\ toasts' = <<>> ]_vars

\* A navigation was made with the request in1.
Navigated == out.applied /\ ~IsFilters(in1) /\ in2.kind = "navigation"
\* The request carries a session token: a non-empty authToken cookie.
HasSessionToken(request) ==
  request.cookies.authToken # <<>> /\ request.cookies.authToken[1] # ""

\* C13 as stated: a navigation whose path starts with /dashboard and that
\* carries no session token is redirected to the login path; every other
\* navigation proceeds without redirect.
C13_PrefixRedirects ==
  Navigated =>
    IF StartsWith(in1.pathname, DASHBOARD) /\ ~HasSessionToken(in1)
    THEN out.response = Redirect("/login")
    ELSE out.response.type = "next"

\* C13, amended: a navigation to /dashboard or to a path under /dashboard/
\* that carries no session token is redirected to /login; every other
\* navigation proceeds without redirect, one to a path that merely begins
\* with the characters /dashboard (/dashboardx) included.
C13_DashboardRedirects ==
  Navigated =>
    IF (in1.pathname = DASHBOARD \/ StartsWith(in1.pathname, << "/", "dashboard", "/" >>))
         /\ ~HasSessionToken(in1)
    THEN out.response = Redirect("/login")
    ELSE out.response.type = "next"

\* /dashboard/x requested without a cookie: redirected to /login.
C13_Witness ==
  /\ Navigated
  /\ in1.pathname = << "/", "dashboard", "/", "x" >>
  /\ in1.cookies.authToken = <<>>
  /\ out.response = Redirect("/login")

\* ceil(T / L) for a positive L
Ceil(T, L) == (T + L - 1) \div L

\* C14: for a task-list response with total T and limit L the totalPages the
\* store's pagination holds after fetchTasks is fulfilled equals ceil(T / L);
\* for the response {data, total: 47, page: 2, limit: 10} it equals 5.
C14_TotalPagesIsCeil ==
  Fulfilled("fetchTasks") =>
    /\ out.state.pagination.totalPages = Ceil(in2.response.total, in2.response.limit)
    /\ (in2.response.total = 47 /\ in2.response.limit = 10)
         => out.state.pagination.totalPages = 5

\* An action of the auth slice was applied to the state in1.
AuthApplied(kind) == out.applied /\ ~IsFilters(in1) /\ in2.kind = kind

PendingStep == Len(reqs') = Len(reqs) + 1 /\ reqs'[Len(reqs')].kind \in ThunkKinds

\* C16: the pending transition of each of the five asynchronous actions sets
\* isLoading to true and error to null and leaves tasks, currentTask, filters
\* and pagination unchanged.
C16_Pending ==
  [][PendingStep =>
       /\ task'.isLoading = TRUE
       /\ task'.error = nullStr
       /\ task'.tasks = task.tasks
       /\ task'.currentTask = task.currentTask
       /\ task'.filters = task.filters
       /\ task'.pagination = task.pagination]_vars

\* A thunk was dispatched after an earlier one had failed and settled: the
\* flag is up and no error is left in the store.
C16_Witness ==
  /\ Len(reqs) = 2
  /\ reqs[1].stage = "done" /\ ~reqs[1].ok
  /\ reqs[2].stage = "sent" /\ reqs[2].kind \in ThunkKinds
  /\ task.isLoading /\ task.error = nullStr

\* ------------------------------------------------------------------ C17
\* A step in which a thunk dispatches its rejected action.
RejectedStep ==
  running # 0 /\ reqs[running].stage = "failed" /\ reqs'[running].stage = "rejected"

\* The text the claim expects in the store for a failed request.
ExpectedError(req) ==
  IF req.error.response /\ req.error.message \notin {undefinedStr, ""}
  THEN req.error.message
  ELSE CASE req.kind = "fetchTasks" -> "Failed to fetch tasks"
         [] req.kind = "fetchTask"  -> "Failed to fetch task"
         [] req.kind = "createTask" -> "Failed to create task"
         [] req.kind = "updateTask" -> "Failed to update task"
         [] req.kind = "deleteTask" -> "Failed to delete task"

\* C17: the rejected transition of each of the five asynchronous actions sets
\* isLoading to false and error to the server-provided message when there is
\* one and otherwise to that action's fallback text, and leaves tasks,
\* currentTask, filters and pagination unchanged.
C17_Rejected ==
  [][RejectedStep =>
       /\ task'.isLoading = FALSE
       /\ task'.error = ExpectedError(reqs[running])
       /\ task'.tasks = task.tasks
       /\ task'.currentTask = task.currentTask
       /\ task'.filters = task.filters
       /\ task'.pagination = task.pagination]_vars

\* An update failed without a message from the server, over a list that an
\* earlier fetch had filled: the fallback text is in the store, the list kept.
C17_Witness ==
  /\ running # 0
  /\ reqs[running].stage = "rejected"
  /\ reqs[running].kind = "updateTask"
  /\ task.error = "Failed to update task"
  /\ ~task.isLoading
  /\ task.tasks # <<>>

FetchTasksFulfilledStep ==
  /\ running # 0
  /\ reqs[running].kind = "fetchTasks"
  /\ reqs[running].stage = "resolved"
  /\ reqs'[running].stage = "fulfilled"

\* C20: the store's pagination changes only in the fetchTasks fulfilled
\* transition, where it is taken from the server response; every other
\* transition (the fulfilled ones of create, update and delete, every pending
\* and rejected one, every synchronous action) leaves it unchanged.
C20_PaginationFromFetch ==
  [][/\ task'.pagination # task.pagination => FetchTasksFulfilledStep
     /\ FetchTasksFulfilledStep =>
          LET body == reqs[running].response IN
          task'.pagination = [page |-> body.page, limit |-> body.limit,
                              total |-> body.total, totalPages |-> body.totalPages]]_vars

\* A fetch brought a page of two tasks and its totals, then a create put a
\* third task in the list: the pagination is still the fetched one.
C20_Witness ==
  /\ Len(task.tasks) = 3
  /\ task.pagination.total = 47
  /\ task.pagination.page = 2
  /\ \E r \in 1..Len(reqs) : reqs[r].kind = "createTask" /\ reqs[r].stage = "fulfilled"

\* ------------------------------------------------------------------ C21
\* Request r of the list query has just been fulfilled and request r2 of the
\* list query was fulfilled before it.
SettledAfter(r, r2) ==
  /\ r = running /\ r2 # r
  /\ reqs[r].kind = "fetchTasks" /\ reqs[r].stage = "fulfilled"
  /\ reqs[r2].origin = "query" /\ reqs[r2].stage = "done" /\ reqs[r2].ok

\* C21: when two fetchTasks requests were in flight together and both are
\* fulfilled, the store's tasks and pagination are those of the request that
\* settled last, whichever of the two was issued first.
C21_LastSettledWins ==
  \A r, r2 \in 1..Len(reqs) :
    SettledAfter(r, r2) =>
      LET body == reqs[r].response IN
      /\ task.tasks = body.data
      /\ task.pagination = [page |-> body.page, limit |-> body.limit,
                            total |-> body.total, totalPages |-> body.totalPages]

\* The request issued first settled last, after the one issued while it was
\* in flight: its empty page is what the store shows.
C21_Witness ==
  /\ Len(reqs) = 2
  /\ SettledAfter(1, 2)
  /\ reqs[1].response.data = <<>>
  /\ task.tasks = <<>>
  /\ task.pagination.total = 0

\* ------------------------------------------------------------------ C22
FiltersSet == out.applied /\ ~IsFilters(in1) /\ in2.kind = "setFilters"

\* C22: setFilters(p) yields the previous filters overridden by the fields of
\* p: a field of p has p's value, every field absent from p keeps its
\* previous value (or stays absent), and tasks, currentTask, isLoading, error
\* and pagination are unchanged.
C22_SetFiltersMerges ==
  FiltersSet =>
    LET p == in2.payload
        old == in1.filters
        new == out.state.filters
    IN /\ \A k \in FilterKeys :
            IF k \in DOMAIN p
            THEN k \in DOMAIN new /\ new[k] = p[k]
            ELSE /\ (k \in DOMAIN new) = (k \in DOMAIN old)
                 /\ k \in DOMAIN old => new[k] = old[k]
       /\ DOMAIN new \subseteq FilterKeys
       /\ out.state.tasks = in1.tasks
       /\ out.state.currentTask = in1.currentTask
       /\ out.state.isLoading = in1.isLoading
       /\ out.state.error = in1.error
       /\ out.state.pagination = in1.pagination

\* The page is set over filters that hold a priority and a limit: both are
\* kept, the page is the payload's, the list and the error are untouched.
C22_Witness ==
  /\ FiltersSet
  /\ DOMAIN in2.payload = {"page"} /\ in2.payload.page = <<2>>
  /\ DOMAIN in1.filters = {"priority", "page", "limit"}
  /\ in1.filters.page = <<0>> /\ in1.filters.priority = <<"high">>
  /\ out.state.filters.page = <<2>>
  /\ out.state.filters.priority = <<"high">>
  /\ out.state.filters.limit = in1.filters.limit
  /\ in1.tasks # <<>> /\ in1.error # nullStr

\* ------------------------------------------------------------------ C23
\* C23: every synchronous action of the store (setFilters, clearCurrentTask,
\* clearError, setCredentials, logOut) completes with a defined next state
\* and raises no error, in a browser and outside one alike: no dispatch of
\* such an action has ended in an exception.
C23_SyncActionsTotal == uncaught = ""

\* ------------------------------------------------------------------ C24
\* A thunk that was dispatched and whose fulfilled or rejected action has not
\* been dispatched yet.
Pending(r) == reqs[r].kind \in ThunkKinds /\ reqs[r].stage \in {"sent", "resolved", "failed"}

\* C24: isLoading is true whenever at least one asynchronous action has been
\* started and has not yet settled, also when several requests overlap.
C24_LoadingWhilePending ==
  (\E r \in 1..Len(reqs) : Pending(r)) => task.isLoading

\* ------------------------------------------------------------------ C25
\* C25: in every reachable state the store's task list holds no two entries
\* with the same identifier.
C25_DistinctIds ==
  \A i, j \in 1..Len(task.tasks) : task.tasks[i]._id = task.tasks[j]._id => i = j

\* ------------------------------------------------------------------ C26
\* The last request in flight has just been fulfilled and it is a fetch of
\* the list, with the mounted observer on the query of the current filters
\* (so that no further fetch is due): what it brought stays in the store.
LastFetchFulfilled ==
  /\ running # 0
  /\ observed = << task.filters >>
  /\ reqs[running].kind = "fetchTasks" /\ reqs[running].stage = "fulfilled"
  /\ \A r \in 1..Len(reqs) : r # running => reqs[r].stage = "done"

\* C26: whenever no request is in flight, the store's list and pagination are
\* the result of a fetch made with the store's current filters: the answer
\* for superseded filters never remains once all requests have settled.
C26_ListOfCurrentFilters ==
  LastFetchFulfilled => SameFields(reqs[running].filters, task.filters)

\* ------------------------------------------------------------------ C27
\* The token a successful registration stored is still the stored one: it is
\* one of the tokens registration returns and nothing has cleared it since.
RegisteredToken == localStorage["authToken"] \in RegisterTokens /\ cleared = ""

\* C27: after a successful registration has stored the returned token, every
\* later task request sent through the HTTP client carries that token as its
\* bearer credential.
C27_RegisteredTokenSent ==
  [][ (RegisteredToken /\ Len(reqs') = Len(reqs) + 1
         /\ reqs'[Len(reqs')].kind \in ThunkKinds)
      => LET q == reqs'[Len(reqs')] IN
           /\ HasAuthorization(q.headers)
           /\ q.headers["Authorization"] = "Bearer " \o localStorage["authToken"] ]_vars

\* ------------------------------------------------------------------ C28
\* C28: after the api client has torn the session down on a 401 (stored token
\* removed), the store's auth token and user are null as well, in every state
\* until a token is stored again.
C28_StoreClearedOn401 ==
  cleared = "401" => auth.token = nullStr /\ auth.user = null

\* ------------------------------------------------------------------ C29
\* C29: in every reachable state of the task store the number of entries in
\* the task list is at most the page size held in pagination.limit.
C29_ListWithinLimit == Len(task.tasks) <= task.pagination.limit

\* ------------------------------------------------------------------ C30
\* A step of the Previous or the Next control: the page in the filters
\* changes while no request is made and none is answered.
PageChanged ==
  /\ Prop(task'.filters, "page") # Prop(task.filters, "page")
  /\ reqs' = reqs
  /\ running = 0

\* C30: the page number the Previous and Next controls write into the
\* filters lies within 1..totalPages of the pagination held at that moment.
C30_PageWithinTotal ==
  [][ PageChanged =>
        /\ task'.filters.page[1] >= 1
        /\ task'.filters.page[1] <= task.pagination.totalPages ]_vars

====
